---- MODULE Spec2Model ----
(***************************************************************************)
(* Celestial-Chronicles: the field-path engine (utils/fields/access.py),   *)
(* the dependency graph (utils/graphs.py) and the schema validator         *)
(* (entities/validator.py).                                                *)
(*                                                                         *)
(* Python strings are sequences of one-character strings, so that          *)
(* str.split, the regular expressions of Parse, int() and the f-string     *)
(* labels are computed and not assumed.  Python values are tagged nodes    *)
(* of one record shape: t is the type name, k the keys of a dict or the    *)
(* public attribute names of an object (in insertion order), c the values  *)
(* of a dict/object or the elements of a list, n the value of an int.      *)
(***************************************************************************)
EXTENDS Integers, Sequences, FiniteSets, TLC

VARIABLES
  record,      \* path engine: the record the path operations act on
  before,      \* path engine: the record as it was when the last call began
  call,        \* path engine: the last call [op, path, value, mode]
  ret,         \* path engine: what the last call returned or raised
  pc,          \* path engine: "idle" | "returned"
  calls,       \* path engine: number of calls made so far
  registry,    \* validator: cls.registry, a sequence of schemas in insertion order
  entity,      \* validator: the record passed to Validate
  vpc,         \* validator: "init" | "loop" | "returned" | "raised" | "off"
  Schemas,     \* validator: Toposort's order
  pos,         \* validator: index of the next schema of the for loop
  DroppedSchemas,
  ImplementedSchemas,
  DefinedFields,
  ValidationSuccess,
  UndefinedFields,
  evaluated    \* validator: history of the loop, one entry per schema visited

vars == <<record, before, call, ret, pc, calls, registry, entity, vpc, Schemas,
          pos, DroppedSchemas, ImplementedSchemas, DefinedFields,
          ValidationSuccess, UndefinedFields, evaluated>>

pathVars == <<record, before, call, ret, pc, calls>>
valVars == <<registry, entity, vpc, Schemas, pos, DroppedSchemas,
             ImplementedSchemas, DefinedFields, ValidationSuccess,
             UndefinedFields, evaluated>>

(***************************************************************************)
(* Python values                                                           *)
(***************************************************************************)
IntV(i) == [t |-> "int", k |-> <<>>, c |-> <<>>, n |-> i]
NoneV == [t |-> "NoneType", k |-> <<>>, c |-> <<>>, n |-> 0]
ListV(elems) == [t |-> "list", k |-> <<>>, c |-> elems, n |-> 0]
DictV(keys, values) == [t |-> "dict", k |-> keys, c |-> values, n |-> 0]
ObjV(keys, values) == [t |-> "object", k |-> keys, c |-> values, n |-> 0]

isinstance(v, type) == v.t = type

\* key in dct / hasattr(obj, key): position of key among the keys, 0 when absent
KeyPos(v, key) ==
  IF \E i \in 1..Len(v.k) : v.k[i] = key
  THEN CHOOSE i \in 1..Len(v.k) : v.k[i] = key
  ELSE 0

\* hasattr(obj, key) for the values of the model: only objects carry the
\* attribute names the paths of the model can spell
hasattr(v, key) == v.t = "object" /\ KeyPos(v, key) # 0

\* current[key] / getattr(current, key), the key being present
Member(v, key) == v.c[KeyPos(v, key)]

\* container[key] = value on a dict or setattr on an object; a new key is appended
SetMember(v, key, value) ==
  IF KeyPos(v, key) # 0
  THEN [v EXCEPT !.c[KeyPos(v, key)] = value]
  ELSE [v EXCEPT !.k = Append(v.k, key), !.c = Append(v.c, value)]

(***************************************************************************)
(* Python strings                                                          *)
(***************************************************************************)
Dot == "."
Star == <<"*">>
Digits == <<"0", "1", "2", "3", "4", "5", "6", "7", "8", "9">>
IsDigit(ch) == \E d \in 1..10 : Digits[d] = ch
DigitVal(ch) == (CHOOSE d \in 1..10 : Digits[d] = ch) - 1

\* str(i) for i >= 0, as the f-strings format a list position
RECURSIVE Str(_)
Str(i) == IF i < 10 THEN <<Digits[i + 1]>> ELSE Str(i \div 10) \o <<Digits[(i % 10) + 1]>>

RECURSIVE DigitsVal(_)
DigitsVal(s) == IF Len(s) = 0 THEN 0
                ELSE 10 * DigitsVal(SubSeq(s, 1, Len(s) - 1)) + DigitVal(s[Len(s)])

\* int(text): an optional sign and at least one digit, else ValueError
int(text) ==
  LET signed == Len(text) > 0 /\ text[1] \in {"-", "+"}
      body == IF signed THEN Tail(text) ELSE text
  IN IF Len(body) > 0 /\ \A i \in 1..Len(body) : IsDigit(body[i])
     THEN [ok |-> TRUE,
           n |-> IF signed /\ text[1] = "-" THEN 0 - DigitsVal(body) ELSE DigitsVal(body)]
     ELSE [ok |-> FALSE, n |-> 0]

\* position of the first occurrence of ch in s at or after from, 0 when none
FirstAt(s, ch, from) ==
  IF \E i \in from..Len(s) : s[i] = ch
  THEN CHOOSE i \in from..Len(s) : s[i] = ch /\ \A j \in from..(i - 1) : s[j] # ch
  ELSE 0

\* s.split(sep): every piece, empty pieces included
RECURSIVE split(_, _)
split(s, sep) ==
  LET i == FirstAt(s, sep, 1)
  IN IF i = 0 THEN <<s>>
     ELSE <<SubSeq(s, 1, i - 1)>> \o split(SubSeq(s, i + 1, Len(s)), sep)

\* s.split(sep, 1): at most two pieces
split1(s, sep) ==
  LET i == FirstAt(s, sep, 1)
  IN IF i = 0 THEN <<s>> ELSE <<SubSeq(s, 1, i - 1), SubSeq(s, i + 1, Len(s))>>

\* sep.join(parts)
RECURSIVE join(_, _)
join(parts, sep) ==
  IF Len(parts) = 0 THEN <<>>
  ELSE IF Len(parts) = 1 THEN parts[1]
  ELSE parts[1] \o <<sep>> \o join(Tail(parts), sep)

(***************************************************************************)
(* Parse                                                                   *)
(***************************************************************************)
\* re.match(r"^([^\[\]]+)", part): the longest leading run without a bracket
LeadingKey(part) ==
  LET stop == IF \E i \in 1..Len(part) : part[i] \in {"[", "]"}
              THEN CHOOSE i \in 1..Len(part) :
                     part[i] \in {"[", "]"} /\ \A j \in 1..(i - 1) : part[j] \notin {"[", "]"}
              ELSE Len(part) + 1
  IN SubSeq(part, 1, stop - 1)

\* re.findall(r"\[([^]]+)]", rest): scanning from position i
RECURSIVE findall(_, _)
findall(rest, i) ==
  IF i > Len(rest) THEN <<>>
  ELSE IF rest[i] = "["
       THEN LET j == FirstAt(rest, "]", i + 1)
            IN IF j > i + 1
               THEN <<SubSeq(rest, i + 1, j - 1)>> \o findall(rest, j + 1)
               ELSE findall(rest, i + 1)
       ELSE findall(rest, i + 1)

\* Parse(part): [exc, key, indices]
Parse(part) ==
  LET key == LeadingKey(part)
      rest == SubSeq(part, Len(key) + 1, Len(part))
      index_strs == findall(rest, 1)
  IN IF Len(key) = 0
     THEN [exc |-> "ValueError", key |-> <<>>, indices |-> <<>>]
     ELSE [exc |-> "none", key |-> key,
           indices |-> [g \in 1..Len(index_strs) |-> split(index_strs[g], "|")]]

(***************************************************************************)
(* HasField: (labels found, error messages), or the ValueError of Parse    *)
(***************************************************************************)
\* One diagnostic message, by the values its f-string interpolates
Err(kind, key, at, path, group, keys, len, type) ==
  [kind |-> kind, key |-> key, at |-> at, path |-> path, group |-> group,
   keys |-> keys, len |-> len, type |-> type]

RootLabel == <<"[", "r", "o", "o", "t", "]">>

\* current_field or '[root]'
OrRoot(current_field) == IF Len(current_field) = 0 THEN RootLabel ELSE current_field

handle_dict(current, key, next_field, current_field) ==
  IF KeyPos(current, key) = 0
  THEN [found |-> {},
        errors |-> {Err("MissingKey", key, OrRoot(current_field), next_field, <<>>, <<>>, 0, "")},
        cur |-> NoneV]
  ELSE [found |-> {next_field}, errors |-> {}, cur |-> Member(current, key)]

handle_attr(current, key, next_field, current_field) ==
  IF ~hasattr(current, key)
  THEN [found |-> {},
        errors |-> {Err("MissingAttr", key, OrRoot(current_field), next_field, <<>>, <<>>, 0, current.t)},
        cur |-> NoneV]
  ELSE [found |-> {next_field}, errors |-> {}, cur |-> Member(current, key)]

\* lst[idx_int] is defined: Python also counts a negative index from the end
InRange(lst, idx_int) == idx_int < Len(lst.c) /\ idx_int >= 0 - Len(lst.c)
ListItem(lst, idx_int) ==
  IF idx_int >= 0 THEN lst.c[idx_int + 1] ELSE lst.c[Len(lst.c) + idx_int + 1]

IndexLabel(next_field, text) == next_field \o <<"[">> \o text \o <<"]">>
KeyLabel(next_field, k) == next_field \o <<Dot>> \o k

handle_list_indices(lst, index_group, next_field) ==
  IF Len(index_group) # 1
  THEN [found |-> {},
        errors |-> {Err("InvalidIndexGroup", <<>>, <<>>, next_field, index_group, <<>>, 0, "")},
        objs |-> <<>>]
  ELSE LET index == index_group[1]
       IN IF index = Star
          THEN [found |-> {IndexLabel(next_field, Str(i - 1)) : i \in 1..Len(lst.c)},
                errors |-> {},
                objs |-> [i \in 1..Len(lst.c) |->
                            [obj |-> lst.c[i], label |-> IndexLabel(next_field, Str(i - 1))]]]
          ELSE IF int(index).ok /\ InRange(lst, int(index).n)
               THEN [found |-> {IndexLabel(next_field, index)},
                     errors |-> {},
                     objs |-> <<[obj |-> ListItem(lst, int(index).n),
                                 label |-> IndexLabel(next_field, index)]>>]
               ELSE [found |-> {},
                     errors |-> {Err("IndexOutOfRange", index, <<>>, next_field, <<>>, <<>>,
                                     Len(lst.c), "")},
                     objs |-> <<>>]

\* '*' in index_group
HasStar(index_group) == \E i \in 1..Len(index_group) : index_group[i] = Star

\* a group applied key by key: each key present becomes a branch, each key
\* missing an error of its own
handle_dict_indices_each(dct, index_group, next_field) ==
  IF HasStar(index_group)
  THEN [found |-> {KeyLabel(next_field, dct.k[i]) : i \in 1..Len(dct.k)},
        errors |-> {},
        objs |-> [i \in 1..Len(dct.k) |->
                    [obj |-> dct.c[i], label |-> KeyLabel(next_field, dct.k[i])]]]
  ELSE LET present == SelectSeq(index_group, LAMBDA k : KeyPos(dct, k) # 0)
       IN [found |-> {KeyLabel(next_field, present[i]) : i \in 1..Len(present)},
           errors |-> {Err("ExpectedDictKeys", <<>>, <<>>, next_field, <<index_group[i]>>,
                           dct.k, 0, "")
                         : i \in {j \in 1..Len(index_group) : KeyPos(dct, index_group[j]) = 0}},
           objs |-> [i \in 1..Len(present) |->
                       [obj |-> Member(dct, present[i]),
                        label |-> KeyLabel(next_field, present[i])]]]

handle_dict_indices(dct, index_group, next_field) ==
  IF HasStar(index_group)
  THEN [found |-> {KeyLabel(next_field, dct.k[i]) : i \in 1..Len(dct.k)},
        errors |-> {},
        objs |-> [i \in 1..Len(dct.k) |->
                    [obj |-> dct.c[i], label |-> KeyLabel(next_field, dct.k[i])]]]
  ELSE LET missing == {index_group[i] : i \in 1..Len(index_group)}
                        \ {dct.k[i] : i \in 1..Len(dct.k)}
       IN IF missing # {}
          THEN [found |-> {},
                errors |-> {Err("ExpectedDictKeys", <<>>, <<>>, next_field, index_group,
                                dct.k, 0, "")},
                objs |-> <<>>]
          ELSE [found |-> {KeyLabel(next_field, index_group[i]) : i \in 1..Len(index_group)},
                errors |-> {},
                objs |-> [i \in 1..Len(index_group) |->
                            [obj |-> Member(dct, index_group[i]),
                             label |-> KeyLabel(next_field, index_group[i])]]]

\* the body of "for current, next_field in next_objs" for one index group
ApplyIndexGroupTo(o, index_group) ==
  IF isinstance(o.obj, "list") THEN handle_list_indices(o.obj, index_group, o.label)
  ELSE IF isinstance(o.obj, "dict") THEN handle_dict_indices(o.obj, index_group, o.label)
  ELSE [found |-> {},
        errors |-> {Err("ExpectedContainer", <<>>, <<>>, o.label, <<>>, <<>>, 0, o.obj.t)},
        objs |-> <<>>]

RECURSIVE ApplyIndexGroup(_, _)
ApplyIndexGroup(next_objs, index_group) ==
  IF Len(next_objs) = 0 THEN [found |-> {}, errors |-> {}, objs |-> <<>>]
  ELSE LET h == ApplyIndexGroupTo(next_objs[1], index_group)
           r == ApplyIndexGroup(Tail(next_objs), index_group)
       IN [found |-> h.found \cup r.found, errors |-> h.errors \cup r.errors,
           objs |-> h.objs \o r.objs]

\* "for index_group in indices": every group, left to right
RECURSIVE ApplyIndexGroups(_, _)
ApplyIndexGroups(next_objs, indices) ==
  IF Len(indices) = 0 THEN [found |-> {}, errors |-> {}, objs |-> next_objs]
  ELSE LET h == ApplyIndexGroup(next_objs, indices[1])
           r == ApplyIndexGroups(h.objs, Tail(indices))
       IN [found |-> h.found \cup r.found, errors |-> h.errors \cup r.errors,
           objs |-> r.objs]

HasFieldRaise == [exc |-> "ValueError", found |-> {}, errors |-> {}]
HasFieldResult(found, errors) == [exc |-> "none", found |-> found, errors |-> errors]

RECURSIVE HasField(_, _, _)
RECURSIVE HasFieldEach(_, _)

\* "for current, next_field in next_objs: HasField(current, rest, next_field)"
HasFieldEach(next_objs, rest) ==
  IF Len(next_objs) = 0 THEN HasFieldResult({}, {})
  ELSE LET h == HasField(next_objs[1].obj, rest, next_objs[1].label)
       IN IF h.exc # "none" THEN HasFieldRaise
          ELSE LET r == HasFieldEach(Tail(next_objs), rest)
               IN IF r.exc # "none" THEN HasFieldRaise
                  ELSE HasFieldResult(h.found \cup r.found, h.errors \cup r.errors)

HasField(obj, field_path, current_field) ==
  IF Len(field_path) = 0 THEN HasFieldResult({}, {})
  ELSE
  LET parts == split1(field_path, Dot)
      part == parts[1]
      rest == IF Len(parts) > 1 THEN parts[2] ELSE <<>>
      p == Parse(part)
  IN IF p.exc # "none" THEN HasFieldRaise
     ELSE
     LET key == p.key
         indices == p.indices
         next_field == (IF Len(current_field) > 0 THEN current_field \o <<Dot>> ELSE <<>>) \o key
         base == IF isinstance(obj, "dict") THEN handle_dict(obj, key, next_field, current_field)
                 ELSE handle_attr(obj, key, next_field, current_field)
     IN IF base.errors # {} THEN HasFieldResult(base.found, base.errors)
        ELSE IF Len(indices) = 0
        THEN IF Len(rest) > 0
             THEN LET sub == HasField(base.cur, rest, next_field)
                  IN IF sub.exc # "none" THEN HasFieldRaise
                     ELSE HasFieldResult(base.found \cup sub.found, sub.errors)
             ELSE HasFieldResult(base.found, {})
        ELSE
        LET g == ApplyIndexGroups(<<[obj |-> base.cur, label |-> next_field]>>, indices)
        IN IF Len(rest) > 0
           THEN LET sub == HasFieldEach(g.objs, rest)
                IN IF sub.exc # "none" THEN HasFieldRaise
                   ELSE HasFieldResult(base.found \cup g.found \cup sub.found,
                                       g.errors \cup sub.errors)
           ELSE HasFieldResult(base.found \cup g.found, g.errors)


(***************************************************************************)
(* GetField: the value, or the exception raised                            *)
(***************************************************************************)
Returned(v) == [exc |-> "none", val |-> v]
Raised(e) == [exc |-> e, val |-> NoneV]

RECURSIVE get(_, _)
RECURSIVE get_items(_, _)
RECURSIVE get_indices(_, _, _)
RECURSIVE get_keys(_, _, _)

\* the comprehension with every result put in front of the earlier ones
get_items_reversed(items, rest_parts) ==
  IF Len(items) = 0 THEN Returned(<<>>)
  ELSE LET h == get(items[1], rest_parts)
       IN IF h.exc # "none" THEN Raised(h.exc)
          ELSE LET r == get_items(Tail(items), rest_parts)
               IN IF r.exc # "none" THEN Raised(r.exc)
                  ELSE Returned(r.val \o <<h.val>>)

\* [get(item, rest_parts) for item in items]: the elements in order, or the first raise
get_items(items, rest_parts) ==
  IF Len(items) = 0 THEN Returned(<<>>)
  ELSE LET h == get(items[1], rest_parts)
       IN IF h.exc # "none" THEN Raised(h.exc)
          ELSE LET r == get_items(Tail(items), rest_parts)
               IN IF r.exc # "none" THEN Raised(r.exc)
                  ELSE Returned(<<h.val>> \o r.val)

\* [get(current[int(idx)], rest_parts) for idx in indices]
get_indices(current, indices, rest_parts) ==
  IF Len(indices) = 0 THEN Returned(<<>>)
  ELSE LET i == int(indices[1])
       IN IF ~i.ok THEN Raised("ValueError")
          ELSE IF ~InRange(current, i.n) THEN Raised("IndexError")
          ELSE LET h == get(ListItem(current, i.n), rest_parts)
               IN IF h.exc # "none" THEN Raised(h.exc)
                  ELSE LET r == get_indices(current, Tail(indices), rest_parts)
                       IN IF r.exc # "none" THEN Raised(r.exc)
                          ELSE Returned(<<h.val>> \o r.val)

\* [get(current[k], rest_parts) for k in indices]
get_keys(current, indices, rest_parts) ==
  IF Len(indices) = 0 THEN Returned(<<>>)
  ELSE IF KeyPos(current, indices[1]) = 0 THEN Raised("KeyError")
  ELSE LET h == get(Member(current, indices[1]), rest_parts)
       IN IF h.exc # "none" THEN Raised(h.exc)
          ELSE LET r == get_keys(current, Tail(indices), rest_parts)
               IN IF r.exc # "none" THEN Raised(r.exc)
                  ELSE Returned(<<h.val>> \o r.val)

\* a comprehension's result as a Python list
AsList(r) == IF r.exc # "none" THEN r ELSE Returned(ListV(r.val))

\* the body of "for indices in index_groups": every branch returns or raises,
\* so only the first group of a segment is looked at
get_group(current, indices, rest_parts) ==
  IF isinstance(current, "list")
  THEN IF indices = <<Star>>
       THEN AsList(get_items(current.c, rest_parts))
       ELSE AsList(get_indices(current, indices, rest_parts))
  ELSE IF isinstance(current, "dict")
  THEN IF indices = <<Star>>
       THEN AsList(get_items(current.c, rest_parts))
       ELSE AsList(get_keys(current, indices, rest_parts))
  ELSE Raised("TypeError")

get(current, parts) ==
  IF Len(parts) = 0 THEN Returned(current)
  ELSE
  LET part == parts[1]
      rest_parts == Tail(parts)
      p == Parse(part)
  IN IF p.exc # "none" THEN Raised(p.exc)
     ELSE IF isinstance(current, "dict") /\ KeyPos(current, p.key) = 0 THEN Raised("KeyError")
     ELSE IF ~isinstance(current, "dict") /\ ~hasattr(current, p.key) THEN Raised("AttributeError")
     ELSE LET cur == Member(current, p.key)
          IN IF Len(p.indices) > 0 THEN get_group(cur, p.indices[1], rest_parts)
             ELSE IF Len(rest_parts) > 0 THEN get(cur, rest_parts)
             ELSE Returned(cur)

GetField(obj, field_path) == get(obj, split(field_path, Dot))

(***************************************************************************)
(* SetField: the exception raised, and the object as the call left it      *)
(***************************************************************************)
\* the Python + and - of the values of the model
update_value(old, new, mode) ==
  IF mode = "=" THEN Returned(new)
  ELSE IF mode = "+"
  THEN IF isinstance(old, "int") /\ isinstance(new, "int") THEN Returned(IntV(old.n + new.n))
       ELSE IF isinstance(old, "list") /\ isinstance(new, "list")
            THEN Returned(ListV(old.c \o new.c))
       ELSE Raised("TypeError")
  ELSE IF mode = "-"
  THEN IF isinstance(old, "int") /\ isinstance(new, "int") THEN Returned(IntV(old.n - new.n))
       ELSE Raised("TypeError")
  ELSE Raised("ValueError")

\* is not None
NotNone(v) == v.t # "NoneType"

\* position of lst[idx_int] among the elements
ItemPos(lst, idx_int) == IF idx_int >= 0 THEN idx_int + 1 ELSE Len(lst.c) + idx_int + 1

\* do_assign(container, idx, []): [exc, val], val the container afterwards
do_assign(container, idx, newvalue, mode) ==
  IF isinstance(container, "dict")
  THEN LET old == IF KeyPos(container, idx) = 0 THEN NoneV ELSE Member(container, idx)
       IN IF NotNone(old)
          THEN LET u == update_value(old, newvalue, mode)
               IN IF u.exc # "none" THEN [exc |-> u.exc, val |-> container]
                  ELSE Returned(SetMember(container, idx, u.val))
          ELSE Returned(SetMember(container, idx, newvalue))
  ELSE IF isinstance(container, "list")
  THEN IF ~InRange(container, idx) THEN [exc |-> "IndexError", val |-> container]
       ELSE LET u == update_value(ListItem(container, idx), newvalue, mode)
            IN IF u.exc # "none" THEN [exc |-> u.exc, val |-> container]
               ELSE Returned([container EXCEPT !.c[ItemPos(container, idx)] = u.val])
  ELSE [exc |-> "TypeError", val |-> container]

RECURSIVE set(_, _, _, _)
RECURSIVE set_list_each(_, _, _, _, _)
RECURSIVE set_dict_each(_, _, _, _, _)

\* one turn of a loop over list positions: set(target[i], rest_parts) or do_assign
set_list_at(target, i, rest_parts, newvalue, mode) ==
  IF Len(rest_parts) > 0
  THEN IF ~InRange(target, i) THEN [exc |-> "IndexError", val |-> target]
       ELSE LET r == set(ListItem(target, i), rest_parts, newvalue, mode)
            IN [exc |-> r.exc, val |-> [target EXCEPT !.c[ItemPos(target, i)] = r.val]]
  ELSE do_assign(target, i, newvalue, mode)

\* "for i in range(len(target))" / "for idx in indices": sels are the int(idx)
set_list_each(target, sels, rest_parts, newvalue, mode) ==
  IF Len(sels) = 0 THEN Returned(target)
  ELSE IF ~sels[1].ok THEN [exc |-> "ValueError", val |-> target]
  ELSE LET h == set_list_at(target, sels[1].n, rest_parts, newvalue, mode)
       IN IF h.exc # "none" THEN h
          ELSE set_list_each(h.val, Tail(sels), rest_parts, newvalue, mode)

\* one turn of a loop over dict keys
set_dict_at(target, k, rest_parts, newvalue, mode) ==
  IF KeyPos(target, k) = 0 THEN [exc |-> "KeyError", val |-> target]
  ELSE IF Len(rest_parts) > 0
  THEN LET r == set(Member(target, k), rest_parts, newvalue, mode)
       IN [exc |-> r.exc, val |-> SetMember(target, k, r.val)]
  ELSE do_assign(target, k, newvalue, mode)

\* "for k in list(target.keys())" / "for k in indices"
set_dict_each(target, keys, rest_parts, newvalue, mode) ==
  IF Len(keys) = 0 THEN Returned(target)
  ELSE LET h == set_dict_at(target, keys[1], rest_parts, newvalue, mode)
       IN IF h.exc # "none" THEN h
          ELSE set_dict_each(h.val, Tail(keys), rest_parts, newvalue, mode)

\* the body of "for indices in index_groups": every branch returns or raises,
\* so only the first group of a segment is looked at
set_group(target, indices, rest_parts, newvalue, mode) ==
  IF isinstance(target, "list")
  THEN IF indices = <<Star>>
       THEN set_list_each(target, [i \in 1..Len(target.c) |-> [ok |-> TRUE, n |-> i - 1]],
                          rest_parts, newvalue, mode)
       ELSE set_list_each(target, [i \in 1..Len(indices) |-> int(indices[i])],
                          rest_parts, newvalue, mode)
  ELSE IF isinstance(target, "dict")
  THEN IF indices = <<Star>>
       THEN set_dict_each(target, target.k, rest_parts, newvalue, mode)
       ELSE set_dict_each(target, indices, rest_parts, newvalue, mode)
  ELSE [exc |-> "TypeError", val |-> target]

\* the terminal step of set: current[key] = ... or setattr(current, key, ...)
set_terminal(current, key, newvalue, mode) ==
  LET old == Member(current, key)
  IN IF isinstance(current, "dict") /\ ~NotNone(old)
     THEN Returned(SetMember(current, key, newvalue))
     ELSE LET u == update_value(old, newvalue, mode)
          IN IF u.exc # "none" THEN [exc |-> u.exc, val |-> current]
             ELSE Returned(SetMember(current, key, u.val))

set(current, parts, newvalue, mode) ==
  IF Len(parts) = 0 THEN Returned(current)
  ELSE
  LET part == parts[1]
      rest_parts == Tail(parts)
      p == Parse(part)
  IN IF p.exc # "none" THEN [exc |-> p.exc, val |-> current]
     ELSE IF isinstance(current, "dict") /\ KeyPos(current, p.key) = 0
     THEN [exc |-> "KeyError", val |-> current]
     ELSE IF ~isinstance(current, "dict") /\ ~hasattr(current, p.key)
     THEN [exc |-> "AttributeError", val |-> current]
     ELSE LET target == Member(current, p.key)
          IN IF Len(p.indices) > 0
             THEN LET r == set_group(target, p.indices[1], rest_parts, newvalue, mode)
                  IN [exc |-> r.exc, val |-> SetMember(current, p.key, r.val)]
             ELSE IF Len(rest_parts) > 0
             THEN LET r == set(target, rest_parts, newvalue, mode)
                  IN [exc |-> r.exc, val |-> SetMember(current, p.key, r.val)]
             ELSE set_terminal(current, p.key, newvalue, mode)

SetField(obj, field_path, newvalue, mode) == set(obj, split(field_path, Dot), newvalue, mode)


(***************************************************************************)
(* The path engine as a state machine: a caller holds one record and calls *)
(* HasField, GetField and SetField on it, one call at a time.              *)
(***************************************************************************)
MaxLen == 2      \* longest list of a record
MaxCalls == 1    \* calls made on one record

a == <<"a">>
b == <<"b">>
c == <<"c">>

\* "[x|y]"
Group(alts) == <<"[">> \o join(alts, "|") \o <<"]">>

Scalars == {IntV(1), IntV(2), NoneV}

\* every list of n elements of S
RECURSIVE ListsOf(_, _)
ListsOf(S, n) ==
  IF n = 0 THEN {<<>>} ELSE {<<x>> \o l : x \in S, l \in ListsOf(S, n - 1)}

ListsUpTo(S, n) == UNION {ListsOf(S, m) : m \in 0..n}

KeyLists == {<<>>, <<a>>, <<b>>, <<a, b>>}

\* lists and dicts of scalars
Rows == {ListV(l) : l \in ListsUpTo({IntV(1), IntV(2)}, MaxLen)}
Maps == UNION {{DictV(ks, vs) : vs \in ListsOf({IntV(1), NoneV}, Len(ks))} : ks \in KeyLists}

\* what a list or a dict of containers holds
Cells == {IntV(1), ListV(<<>>), ListV(<<IntV(1), IntV(2)>>), DictV(<<a>>, <<IntV(1)>>),
          DictV(<<a, b>>, <<IntV(1), NoneV>>), DictV(<<b>>, <<IntV(2)>>)}

Values == Scalars \cup Rows \cup Maps
            \cup {ListV(l) : l \in ListsUpTo(Cells, MaxLen)}
            \cup {DictV(<<a>>, <<x>>) : x \in Cells}
            \cup {DictV(<<a, b>>, <<x, y>>) : x \in Cells, y \in Cells}

\* the records: a mapping with key "a"
Records == {DictV(<<a>>, <<v>>) : v \in Values}

Selectors == {<<Star>>, <<Str(0)>>, <<Str(1)>>, <<Str(2)>>, <<a>>, <<a, b>>, <<a, c>>,
              <<Str(0), Str(1)>>}
Chained == {<<Star>>, <<Str(0)>>, <<Str(1)>>}

\* the first segment: the key "a" and up to two index groups
FirstSegments ==
  {a} \cup {a \o Group(g) : g \in Selectors}
      \cup {a \o Group(g) \o Group(h) : g \in Chained, h \in Chained}

NextSegments == {a, b, a \o Group(<<Str(0)>>), a \o Group(<<Star>>)}

\* path strings that do not follow the grammar, and a key no record has
OtherPaths == {<<>>, b, <<Dot>> \o a, a \o <<Dot>>, a \o <<Dot, Dot>> \o a, Group(<<Str(0)>>),
               a \o <<Dot>> \o Group(<<Star>>)}

Paths == FirstSegments \cup {f \o <<Dot>> \o n : f \in FirstSegments, n \in NextSegments}
           \cup OtherPaths

NewValues == {IntV(2), NoneV}
Modes == {"=", "+", "-", "?"}

NoCall == [op |-> "none", path |-> <<>>, value |-> NoneV, mode |-> ""]
Ret(exc, val, found, errors) == [exc |-> exc, val |-> val, found |-> found, errors |-> errors]
NoRet == Ret("none", NoneV, {}, {})

ValidatorOff ==
  /\ registry = <<>>
  /\ entity = NoneV
  /\ vpc = "off"
  /\ Schemas = <<>>
  /\ pos = 0
  /\ DroppedSchemas = {}
  /\ ImplementedSchemas = {}
  /\ DefinedFields = {}
  /\ ValidationSuccess = "Valid"
  /\ UndefinedFields = {}
  /\ evaluated = <<>>

Init ==
  /\ record \in Records
  /\ before = record
  /\ call = NoCall
  /\ ret = NoRet
  /\ pc = "idle"
  /\ calls = 0
  /\ ValidatorOff

\* HasField(record, path)
Exists ==
  /\ pc = "idle" /\ calls < MaxCalls
  /\ \E path \in Paths :
       LET r == HasField(record, path, <<>>)
       IN /\ call' = [op |-> "Exists", path |-> path, value |-> NoneV, mode |-> ""]
          /\ ret' = Ret(r.exc, NoneV, r.found, r.errors)
  /\ before' = record
  /\ pc' = "returned"
  /\ calls' = calls + 1
  /\ UNCHANGED <<record, valVars>>

\* GetField(record, path)
Read ==
  /\ pc = "idle" /\ calls < MaxCalls
  /\ \E path \in Paths :
       LET r == GetField(record, path)
       IN /\ call' = [op |-> "Read", path |-> path, value |-> NoneV, mode |-> ""]
          /\ ret' = Ret(r.exc, r.val, {}, {})
  /\ before' = record
  /\ pc' = "returned"
  /\ calls' = calls + 1
  /\ UNCHANGED <<record, valVars>>

\* SetField(record, path, value, mode): the record is changed in place
Write ==
  /\ pc = "idle" /\ calls < MaxCalls
  /\ \E path \in Paths, value \in NewValues, mode \in Modes :
       LET r == SetField(record, path, value, mode)
       IN /\ call' = [op |-> "Write", path |-> path, value |-> value, mode |-> mode]
          /\ ret' = Ret(r.exc, NoneV, {}, {})
          /\ record' = r.val
  /\ before' = record
  /\ pc' = "returned"
  /\ calls' = calls + 1
  /\ UNCHANGED valVars

\* the caller takes the result and goes on with the record
Continue ==
  /\ pc = "returned"
  /\ pc' = "idle"
  /\ call' = NoCall
  /\ ret' = NoRet
  /\ before' = record
  /\ UNCHANGED <<record, calls, valVars>>

Next == Exists \/ Read \/ Write \/ Continue

Spec == Init /\ [][Next]_vars


(***************************************************************************)
(* utils/graphs.py: a graph is a sequence of [name, parents] in the        *)
(* insertion order of the dict                                             *)
(***************************************************************************)
\* graph[parent] / reverse_graph[parent]: the nodes listing parent, once per listing
RECURSIVE ChildrenIn(_, _)
ChildrenIn(graph_dict, parent) ==
  IF Len(graph_dict) = 0 THEN <<>>
  ELSE LET node == graph_dict[1]
           here == SelectSeq(node.parents, LAMBDA q : q = parent)
       IN [i \in 1..Len(here) |-> node.name] \o ChildrenIn(Tail(graph_dict), parent)

\* "if parent:" skips the empty name
BuildReverseGraph(graph_dict) ==
  [parent \in {q \in UNION {{n.parents[i] : i \in 1..Len(n.parents)} :
                              n \in {graph_dict[j] : j \in 1..Len(graph_dict)}} : q # ""}
     |-> ChildrenIn(graph_dict, parent)]

\* reverse_graph.get(current, [])
GraphGet(graph, current) == IF current \in DOMAIN graph THEN graph[current] ELSE <<>>

GraphNames(graph_dict) == {graph_dict[j].name : j \in 1..Len(graph_dict)}

\* in_degree after the two building loops
InDegree(graph_dict) ==
  [name \in GraphNames(graph_dict) |->
     Len(SelectSeq((CHOOSE n \in {graph_dict[j] : j \in 1..Len(graph_dict)} : n.name = name).parents,
                   LAMBDA q : q # ""))]

\* "for child in graph[current]": [in_degree, queue] afterwards
RECURSIVE Release(_, _, _)
Release(children, in_degree, queue) ==
  IF Len(children) = 0 THEN [in_degree |-> in_degree, queue |-> queue]
  ELSE LET child == children[1]
           deg == [in_degree EXCEPT ![child] = @ - 1]
       IN Release(Tail(children), deg,
                  IF deg[child] = 0 THEN Append(queue, child) ELSE queue)

\* "while queue": sorted_nodes when the queue is empty
RECURSIVE Drain(_, _, _, _)
Drain(graph, in_degree, queue, sorted_nodes) ==
  IF Len(queue) = 0 THEN sorted_nodes
  ELSE LET current == Head(queue)
           r == Release(GraphGet(graph, current), in_degree, Tail(queue))
       IN Drain(graph, r.in_degree, r.queue, Append(sorted_nodes, current))

\* Toposort without the length test: the nodes drained are returned as the order
ToposortUnchecked(graph_dict) ==
  LET names == [j \in 1..Len(graph_dict) |-> graph_dict[j].name]
  IN [exc |-> "none",
      order |-> Drain(BuildReverseGraph(graph_dict), InDegree(graph_dict),
                      SelectSeq(names, LAMBDA name : InDegree(graph_dict)[name] = 0), <<>>)]

\* the keys of graph_dict in insertion order, not sorted
ToposortInsertionOrder(graph_dict) ==
  [exc |-> "none", order |-> [j \in 1..Len(graph_dict) |-> graph_dict[j].name]]

\* Toposort(graph_dict): [exc, order]
Toposort(graph_dict) ==
  LET graph == BuildReverseGraph(graph_dict)
      in_degree == InDegree(graph_dict)
      names == [j \in 1..Len(graph_dict) |-> graph_dict[j].name]
      queue == SelectSeq(names, LAMBDA name : in_degree[name] = 0)
      sorted_nodes == Drain(graph, in_degree, queue, <<>>)
  IN IF Len(sorted_nodes) # Cardinality(DOMAIN in_degree)
     THEN [exc |-> "ValueError", order |-> <<>>]
     ELSE [exc |-> "none", order |-> sorted_nodes]

\* the breadth-first loop of GetAllDescendants
RECURSIVE Descend(_, _, _)
RECURSIVE Visit(_, _, _)
\* "for child in reverse_graph.get(current, [])": [descendants, queue] afterwards
Visit(children, descendants, queue) ==
  IF Len(children) = 0 THEN [descendants |-> descendants, queue |-> queue]
  ELSE IF children[1] \notin descendants
       THEN Visit(Tail(children), descendants \cup {children[1]}, Append(queue, children[1]))
       ELSE Visit(Tail(children), descendants, queue)

Descend(reverse_graph, descendants, queue) ==
  IF Len(queue) = 0 THEN descendants
  ELSE LET v == Visit(GraphGet(reverse_graph, Head(queue)), descendants, Tail(queue))
       IN Descend(reverse_graph, v.descendants, v.queue)

GetAllDescendants(start, reverse_graph) == Descend(reverse_graph, {}, <<start>>)

(***************************************************************************)
(* utils/fields/miscellaneous.py                                           *)
(***************************************************************************)
\* Dict(obj): the attributes whose name does not start with '_'
Dict(obj) ==
  LET public == SelectSeq([i \in 1..Len(obj.k) |-> i], LAMBDA i : obj.k[i][1] # "_")
  IN DictV([i \in 1..Len(public) |-> obj.k[public[i]]],
           [i \in 1..Len(public) |-> obj.c[public[i]]])

RECURSIVE FlattenFields(_, _)
FlattenFields(data, prefix) ==
  IF isinstance(data, "dict")
  THEN UNION {LET full_key == IF Len(prefix) > 0 THEN prefix \o <<Dot>> \o data.k[i]
                              ELSE data.k[i]
              IN {full_key} \cup FlattenFields(data.c[i], full_key)
              : i \in 1..Len(data.k)}
  ELSE {}

(***************************************************************************)
(* entities/validator.py                                                   *)
(***************************************************************************)
\* bool(t) of a tuple: true unless the tuple is empty
tuple_bool(t) == Len(t) # 0

\* the truth of the (found, errors) pair h that HasField returned
FieldTestOf(h) == [exc |-> h.exc, truth |-> h.exc = "none" /\ tuple_bool(<<h.found, h.errors>>)]

\* "if HasField(entity, field)": [exc, truth]
FieldTest(ent, field) == FieldTestOf(HasField(ent, field, <<>>))

\* "if HasField(entity, field)" for every field of a list, in order
FieldTests(ent, fields) == [i \in 1..Len(fields) |-> FieldTest(ent, fields[i])]

\* the fields of a list that pass the test, as a set
FieldsPassing(fields, tests) == {fields[i] : i \in {j \in 1..Len(fields) : tests[j].truth}}
\* HasField raises on some field of the list
FieldsRaise(tests) == \E i \in 1..Len(tests) : tests[i].exc # "none"
\* HasField raises on a field before any field of the list fails the test
RaiseBeforeFail(tests) ==
  \E i \in 1..Len(tests) : tests[i].exc # "none" /\ \A j \in 1..(i - 1) : tests[j].truth

\* the loop of ValidateMandatoryFields over the tests of its fields
MandatoryLoop(fields, tests) ==
  IF RaiseBeforeFail(tests)
  THEN [exc |-> "ValueError", none |-> FALSE, fields |-> {}]
  ELSE IF \E i \in 1..Len(tests) : ~tests[i].truth
  THEN [exc |-> "none", none |-> TRUE, fields |-> {}]
  ELSE [exc |-> "none", none |-> FALSE, fields |-> FieldsPassing(fields, tests)]

\* ValidateMandatoryFields: [exc, none, fields]; none is the Python None
ValidateMandatoryFields(schema, ent) ==
  MandatoryLoop(schema.Mandatory, FieldTests(ent, schema.Mandatory))

OptionalLoop(fields, tests) ==
  IF FieldsRaise(tests) THEN [exc |-> "ValueError", fields |-> {}]
  ELSE [exc |-> "none", fields |-> FieldsPassing(fields, tests)]

\* ValidateOptionalFields: [exc, fields]
ValidateOptionalFields(schema, ent) ==
  OptionalLoop(schema.Optional, FieldTests(ent, schema.Optional))

AnyOfLoop(fields, tests) ==
  IF FieldsRaise(tests)
  THEN [exc |-> "ValueError", none |-> FALSE, fields |-> {}]
  ELSE IF Cardinality(FieldsPassing(fields, tests)) = 0
  THEN [exc |-> "none", none |-> TRUE, fields |-> {}]
  ELSE [exc |-> "none", none |-> FALSE, fields |-> FieldsPassing(fields, tests)]

\* ValidateAnyOfFields: [exc, none, fields]
ValidateAnyOfFields(schema, ent) ==
  AnyOfLoop(schema.AnyOf, FieldTests(ent, schema.AnyOf))

\* the body of ValidateSchema, given what the three methods return
SchemaStatus(Mandatory, AnyOf, Optional) ==
  IF Mandatory.exc # "none" \/ AnyOf.exc # "none"
  THEN [exc |-> "ValueError", status |-> "SchemaNotImplemented", fields |-> {}]
  ELSE IF Mandatory.none \/ AnyOf.none
  THEN [exc |-> "none", status |-> "SchemaNotImplemented", fields |-> {}]
  ELSE IF Optional.exc # "none"
  THEN [exc |-> "ValueError", status |-> "SchemaNotImplemented", fields |-> {}]
  ELSE [exc |-> "none", status |-> "SchemaImplemented",
        fields |-> Mandatory.fields \cup Optional.fields \cup AnyOf.fields]

\* ValidateSchema: [exc, status, fields]
ValidateSchema(schema, ent) ==
  SchemaStatus(ValidateMandatoryFields(schema, ent), ValidateAnyOfFields(schema, ent),
               ValidateOptionalFields(schema, ent))

\* cls.registry[name]
Lookup(reg, name) == CHOOSE sch \in {reg[i] : i \in 1..Len(reg)} : sch.Name = name

\* {name: schema.Extends for name, schema in cls.registry.items()}
SchemasGraph(reg) == [i \in 1..Len(reg) |-> [name |-> reg[i].Name, parents |-> reg[i].Extends]]

\* Required used as it is written: a non-empty list of names is true
EffectiveRequiredTruthy(Required, implemented) ==
  IF Required.isbool THEN Required.flag ELSE Len(Required.names) > 0

\* Required, a bool or a list of names: any(name in ImplementedSchemas for name in Required)
EffectiveRequired(Required, implemented) ==
  IF Required.isbool THEN Required.flag
  ELSE \E i \in 1..Len(Required.names) : Required.names[i] \in implemented


(***************************************************************************)
(* Validate as a state machine: Toposort, then one step per schema of the  *)
(* for loop, then the return.                                              *)
(***************************************************************************)
Stats == <<"S", "t", "a", "t", "s">>
Strength == <<"S", "t", "r", "e", "n", "g", "t", "h">>
Luck == <<"L", "u", "c", "k">>
FilePath == <<"_", "f", "i", "l", "e">>
StatsStrength == Stats \o <<Dot>> \o Strength
StatsLuck == Stats \o <<Dot>> \o Luck

\* the records validated: objects whose public attribute is Stats
Entities ==
  {ObjV(<<Stats>>, <<DictV(<<Strength>>, <<IntV(5)>>)>>),
   ObjV(<<FilePath, Stats>>, <<IntV(1), DictV(<<Strength, Luck>>, <<IntV(5), IntV(1)>>)>>)}

Names == <<"base", "feature", "trait">>
NameSet == {Names[i] : i \in 1..Len(Names)}

Bool(flag) == [isbool |-> TRUE, flag |-> flag, names |-> <<>>]
IfAny(names) == [isbool |-> FALSE, flag |-> FALSE, names |-> names]

\* the Mandatory, Optional and AnyOf lists a schema file declares
Bodies ==
  {[Mandatory |-> <<StatsStrength>>, Optional |-> <<>>, AnyOf |-> <<>>],
   [Mandatory |-> <<StatsStrength>>, Optional |-> <<StatsLuck>>, AnyOf |-> <<StatsStrength>>],
   [Mandatory |-> <<StatsLuck>>, Optional |-> <<>>, AnyOf |-> <<StatsStrength, StatsLuck>>]}
ExtendsLists == {<<>>} \cup {<<n>> : n \in NameSet}
RequiredValues == {Bool(TRUE), Bool(FALSE), IfAny(<<"feature">>)}

SchemasNamed(name) ==
  {[Name |-> name, Mandatory |-> body.Mandatory, Optional |-> body.Optional,
    AnyOf |-> body.AnyOf, Extends |-> ext, Required |-> req]
     : body \in Bodies, ext \in ExtendsLists, req \in RequiredValues}

\* the registries: the first n names, each with one of its schemas
Registries ==
  {<<x>> : x \in SchemasNamed(Names[1])}
    \cup {<<x, y>> : x \in SchemasNamed(Names[1]), y \in SchemasNamed(Names[2])}
    \cup {<<x, y, z>> : x \in SchemasNamed(Names[1]), y \in SchemasNamed(Names[2]),
                        z \in SchemasNamed(Names[3])}

PathEngineOff ==
  /\ record = NoneV
  /\ before = NoneV
  /\ call = NoCall
  /\ ret = NoRet
  /\ pc = "off"
  /\ calls = 0

InitValidate ==
  /\ registry \in Registries
  /\ entity \in Entities
  /\ vpc = "init"
  /\ Schemas = <<>>
  /\ pos = 0
  /\ DroppedSchemas = {}
  /\ ImplementedSchemas = {}
  /\ DefinedFields = {}
  /\ ValidationSuccess = "Valid"
  /\ UndefinedFields = {}
  /\ evaluated = <<>>
  /\ PathEngineOff

\* Schemas = Toposort(SchemasGraph), which may raise
ValidateBegin ==
  /\ vpc = "init"
  /\ LET t == Toposort(SchemasGraph(registry))
     IN IF t.exc # "none"
        THEN /\ vpc' = "raised"
             /\ UNCHANGED <<Schemas, pos>>
        ELSE /\ vpc' = "loop"
             /\ Schemas' = t.order
             /\ pos' = 1
  /\ UNCHANGED <<registry, entity, DroppedSchemas, ImplementedSchemas, DefinedFields,
                 ValidationSuccess, UndefinedFields, evaluated, pathVars>>

\* one turn of "for schema in Schemas", v being what ValidateSchema returns
\* and Required the effective requiredness
StepNote(schema, outcome, Required, status) ==
  [schema |-> schema, outcome |-> outcome, required |-> Required, status |-> status]

\* the turn of the loop with a required NotImplemented schema ending the pass
StepEffectStopping(schema, Required, v) ==
  \/ /\ v.exc # "none"
     /\ vpc' = "raised"
     /\ UNCHANGED <<pos, evaluated, DroppedSchemas, ImplementedSchemas, DefinedFields,
                    ValidationSuccess>>
  \/ /\ v.exc = "none"
     /\ v.status = "SchemaImplemented"
     /\ DefinedFields' = DefinedFields \cup v.fields
     /\ ImplementedSchemas' = ImplementedSchemas \cup {schema}
     /\ evaluated' = Append(evaluated, StepNote(schema, "implemented", Required, v.status))
     /\ pos' = pos + 1
     /\ UNCHANGED <<vpc, DroppedSchemas, ValidationSuccess>>
  \/ /\ v.exc = "none"
     /\ v.status # "SchemaImplemented"
     /\ ~Required
     /\ DroppedSchemas' = DroppedSchemas \cup
          GetAllDescendants(schema, BuildReverseGraph(SchemasGraph(registry)))
     /\ evaluated' = Append(evaluated, StepNote(schema, "dropped", Required, v.status))
     /\ pos' = pos + 1
     /\ UNCHANGED <<vpc, ImplementedSchemas, DefinedFields, ValidationSuccess>>
  \/ /\ v.exc = "none"
     /\ v.status # "SchemaImplemented"
     /\ Required
     /\ ValidationSuccess' = "Invalid"
     /\ evaluated' = Append(evaluated, StepNote(schema, "invalid", Required, v.status))
     /\ pos' = Len(Schemas) + 1
     /\ UNCHANGED <<vpc, DroppedSchemas, ImplementedSchemas, DefinedFields>>

StepEffect(schema, Required, v) ==
  \/ /\ v.exc # "none"
     /\ vpc' = "raised"
     /\ UNCHANGED <<pos, evaluated, DroppedSchemas, ImplementedSchemas, DefinedFields,
                    ValidationSuccess>>
  \/ /\ v.exc = "none"
     /\ v.status = "SchemaImplemented"
     /\ DefinedFields' = DefinedFields \cup v.fields
     /\ ImplementedSchemas' = ImplementedSchemas \cup {schema}
     /\ evaluated' = Append(evaluated, StepNote(schema, "implemented", Required, v.status))
     /\ pos' = pos + 1
     /\ UNCHANGED <<vpc, DroppedSchemas, ValidationSuccess>>
  \/ /\ v.exc = "none"
     /\ v.status # "SchemaImplemented"
     /\ ~Required
     /\ DroppedSchemas' = DroppedSchemas \cup
          GetAllDescendants(schema, BuildReverseGraph(SchemasGraph(registry)))
     /\ evaluated' = Append(evaluated, StepNote(schema, "dropped", Required, v.status))
     /\ pos' = pos + 1
     /\ UNCHANGED <<vpc, ImplementedSchemas, DefinedFields, ValidationSuccess>>
  \/ /\ v.exc = "none"
     /\ v.status # "SchemaImplemented"
     /\ Required
     /\ ValidationSuccess' = "Invalid"
     /\ evaluated' = Append(evaluated, StepNote(schema, "invalid", Required, v.status))
     /\ pos' = pos + 1
     /\ UNCHANGED <<vpc, DroppedSchemas, ImplementedSchemas, DefinedFields>>

ValidateStep ==
  /\ vpc = "loop" /\ pos <= Len(Schemas)
  /\ \/ /\ Schemas[pos] \in DroppedSchemas
        /\ evaluated' = Append(evaluated, StepNote(Schemas[pos], "skipped", FALSE, "none"))
        /\ pos' = pos + 1
        /\ UNCHANGED <<vpc, DroppedSchemas, ImplementedSchemas, DefinedFields,
                       ValidationSuccess>>
     \/ /\ Schemas[pos] \notin DroppedSchemas
        /\ \E Required \in {EffectiveRequired(Lookup(registry, Schemas[pos]).Required,
                                              ImplementedSchemas)},
              v \in {ValidateSchema(Lookup(registry, Schemas[pos]), entity)} :
             StepEffect(Schemas[pos], Required, v)
  /\ UNCHANGED <<registry, entity, Schemas, UndefinedFields, pathVars>>

\* UndefinedFields and the return
ValidateReturn ==
  /\ vpc = "loop" /\ pos > Len(Schemas)
  /\ UndefinedFields' = FlattenFields(Dict(entity), <<>>) \ DefinedFields
  /\ vpc' = "returned"
  /\ UNCHANGED <<registry, entity, Schemas, pos, DroppedSchemas, ImplementedSchemas,
                 DefinedFields, ValidationSuccess, evaluated, pathVars>>

NextValidate == ValidateBegin \/ ValidateStep \/ ValidateReturn

SpecValidate == InitValidate /\ [][NextValidate]_vars


(***************************************************************************)
(* Properties of the validator (checked under SpecValidate)                *)
(***************************************************************************)
RegistrySchemas == {registry[i] : i \in 1..Len(registry)}
RegistryNames == {sch.Name : sch \in RegistrySchemas}

\* the registered schemas that list one of the names of S among their Extends
ExtendersOf(S) ==
  {sch.Name : sch \in {x \in RegistrySchemas : \E i \in 1..Len(x.Extends) : x.Extends[i] \in S}}

\* every transitive Extends-descendant of base: n rounds of ExtendersOf
RECURSIVE DescendantsWithin(_, _)
DescendantsWithin(S, n) ==
  IF n = 0 THEN S ELSE DescendantsWithin(S \cup ExtendersOf(S), n - 1)
DescendantsOf(base) == DescendantsWithin(ExtendersOf({base}), Len(registry))

\* the Extends graph has a cycle: some schema is its own descendant
HasCycle == \E name \in RegistryNames : name \in DescendantsOf(name)

\* one of the Mandatory paths of the schema is absent from the record:
\* HasField reports an error for it
MandatoryMissing(sch) ==
  \E i \in 1..Len(sch.Mandatory) : HasField(entity, sch.Mandatory[i], <<>>).errors # {}

\* the entries of the loop's history before entry i whose schema was Implemented
ImplementedBefore(i) == {evaluated[j].schema : j \in {k \in 1..(i - 1) : evaluated[k].outcome = "implemented"}}

\* C1: if a schema base is evaluated, has a Mandatory path absent from the
\* record and is not effectively required, then every transitive
\* Extends-descendant of base is in DroppedSchemas and none of them is in
\* ImplementedSchemas.
C1_Cascade ==
  \A i \in 1..Len(evaluated) :
     LET e == evaluated[i]
     IN (e.outcome # "skipped" /\ MandatoryMissing(Lookup(registry, e.schema)) /\ ~e.required)
          => /\ DescendantsOf(e.schema) \subseteq DroppedSchemas
             /\ DescendantsOf(e.schema) \cap ImplementedSchemas = {}

ScenarioRegistry ==
  <<[Name |-> "base", Mandatory |-> <<StatsStrength>>, Optional |-> <<>>, AnyOf |-> <<>>,
     Extends |-> <<>>, Required |-> Bool(TRUE)]>>
ScenarioEntity == ObjV(<<Stats>>, <<DictV(<<Strength>>, <<IntV(5)>>)>>)

\* C3: on the record {"Stats": {"Strength": 5}} and the registry holding only
\* base (Mandatory = ["Stats.Strength"], Required = true, no AnyOf, no Optional)
\* Validate returns Valid, DefinedFields = {"Stats.Strength"}, UndefinedFields
\* empty and ImplementedSchemas = {"base"}; and any evaluated schema whose
\* Mandatory paths all exist and whose AnyOf list is empty is Implemented.
C3_SingleSchema ==
  /\ (vpc = "returned" /\ registry = ScenarioRegistry /\ entity = ScenarioEntity)
       => /\ ValidationSuccess = "Valid"
          /\ DefinedFields = {StatsStrength}
          /\ UndefinedFields = {}
          /\ ImplementedSchemas = {"base"}
  /\ \A i \in 1..Len(evaluated) :
        LET sch == Lookup(registry, evaluated[i].schema)
        IN (evaluated[i].outcome # "skipped" /\ ~MandatoryMissing(sch) /\ Len(sch.AnyOf) = 0)
             => evaluated[i].outcome = "implemented"

\* C6: when the Extends graph contains a cycle, Toposort raises and yields no
\* order, and Validate aborts: it never enters its loop and returns no outcome.
C6_CycleDetected ==
  HasCycle =>
    /\ Toposort(SchemasGraph(registry)) = [exc |-> "ValueError", order |-> <<>>]
    /\ vpc \in {"init", "raised"}
    /\ Schemas = <<>> /\ evaluated = <<>>
    /\ ImplementedSchemas = {} /\ DefinedFields = {}

\* C6 witness: Validate raised on a registry where base and feature extend each
\* other and trait, on no cycle, extends nothing
C6_Witness ==
  /\ vpc = "raised"
  /\ Len(registry) = 3
  /\ Lookup(registry, "base").Extends = <<"feature">>
  /\ Lookup(registry, "feature").Extends = <<"base">>
  /\ Lookup(registry, "trait").Extends = <<>>

\* C9: no schema with a Mandatory path for which HasField reports an error is
\* ever in ImplementedSchemas.
C9_MandatoryGate ==
  \A sch \in RegistrySchemas : MandatoryMissing(sch) => sch.Name \notin ImplementedSchemas


(***************************************************************************)
(* Properties of the path engine (checked under Spec)                      *)
(***************************************************************************)
\* the first segment of the last call's path, parsed, and the rest of the path
FirstSegment == Parse(split1(call.path, Dot)[1])
RestOfPath == IF Len(split1(call.path, Dot)) > 1 THEN split1(call.path, Dot)[2] ELSE <<>>

\* the value under key "a" when the last call began
Target == Member(before, a)

\* every segment of the path begins with a key character
SegmentsParse(path) ==
  \A i \in 1..Len(split(path, Dot)) :
     LET seg == split(path, Dot)[i]
     IN Len(seg) > 0 /\ seg[1] \notin {"[", "]"}

\* no group of the path is a wildcard or holds more than one selector
NoFanOut(path) ==
  /\ SegmentsParse(path)
  /\ \A i \in 1..Len(split(path, Dot)) :
        LET groups == Parse(split(path, Dot)[i]).indices
        IN \A g \in 1..Len(groups) : Len(groups[g]) = 1 /\ groups[g] # <<Star>>

\* C4: after Write(R, P, V, assign) succeeds on a path P without wildcard and
\* without multi-selector group, Read(R, P) returns exactly V.
C4_RoundTrip ==
  (pc = "returned" /\ call.op = "Write" /\ call.mode = "=" /\ ret.exc = "none"
     /\ NoFanOut(call.path))
    => GetField(record, call.path) = Returned(call.value)

\* the last call was Exists with the group [a|c] applied to a mapping whose keys
\* are exactly a and b
AlternativeGroupCase ==
  /\ pc = "returned" /\ call.op = "Exists"
  /\ FirstSegment = [exc |-> "none", key |-> a, indices |-> <<<<a, c>>>>]
  /\ isinstance(Target, "dict") /\ Target.k = <<a, b>>

C7_ExistsNeverRaises == (pc = "returned" /\ call.op = "Exists") => ret.exc = "none"

\* C8: when the value under "a" is a list of n elements, Read(R, "a[*]")
\* returns a sequence of exactly n values whose i-th entry is the i-th element.
C8_FanOutCardinality ==
  (pc = "returned" /\ call.op = "Read" /\ call.path = a \o Group(<<Star>>)
     /\ isinstance(Target, "list"))
    => /\ ret.exc = "none"
       /\ isinstance(ret.val, "list")
       /\ Len(ret.val.c) = Len(Target.c)
       /\ \A i \in 1..Len(Target.c) : ret.val.c[i] = Target.c[i]

\* C8 witness: Read of a[*] on a list of two different elements
C8_Witness ==
  /\ pc = "returned" /\ call.op = "Read" /\ call.path = a \o Group(<<Star>>)
  /\ isinstance(Target, "list") /\ Len(Target.c) = 2 /\ Target.c[1] # Target.c[2]
  /\ ret.val = ListV(Target.c)

\* the last call used the path a[i][j] on a list of lists, i and j in range
GridCase(i, j) ==
  /\ pc = "returned"
  /\ call.path = a \o Group(<<Str(i)>>) \o Group(<<Str(j)>>)
  /\ isinstance(Target, "list") /\ i < Len(Target.c)
  /\ isinstance(Target.c[i + 1], "list") /\ j < Len(Target.c[i + 1].c)

\* C10: Read(R, "a[i][j]") returns the element a[i][j], and
\* Write(R, "a[i][j]", V, assign) changes that element and nothing else.
C10_EveryIndexGroup ==
  \A i \in 0..MaxLen, j \in 0..MaxLen :
     GridCase(i, j) =>
       /\ call.op = "Read" => ret = Ret("none", Target.c[i + 1].c[j + 1], {}, {})
       /\ (call.op = "Write" /\ call.mode = "=")
            => /\ ret.exc = "none"
               /\ record = [before EXCEPT !.c[1].c[i + 1].c[j + 1] = call.value]


\* the last call was a Read that returned
ReadReturned == pc = "returned" /\ call.op = "Read" /\ ret.exc = "none"

\* the value under "a" is a non-empty list of mappings
ListOfMaps ==
  /\ isinstance(Target, "list") /\ Len(Target.c) > 0
  /\ \A i \in 1..Len(Target.c) : isinstance(Target.c[i], "dict")

\* C11: Read's result is nested as deep as the number of fan-out points of the
\* path: a[i], without fan-out, returns the bare element; a[*] returns the
\* elements in one sequence; a[*][*] on a list of mappings returns one sequence
\* per mapping, holding that mapping's values.
C11_NestingDepth ==
  ReadReturned =>
    /\ \A i \in 0..MaxLen :
          (call.path = a \o Group(<<Str(i)>>) /\ isinstance(Target, "list"))
            => ret.val = Target.c[i + 1]
    /\ (call.path = a \o Group(<<Star>>) /\ isinstance(Target, "list"))
          => ret.val = ListV(Target.c)
    /\ (call.path = a \o Group(<<Star>>) \o Group(<<Star>>) /\ ListOfMaps)
          => ret.val = ListV([i \in 1..Len(Target.c) |-> ListV(Target.c[i].c)])


\* the path of the last call addresses at least one location of the record as
\* it was: Exists reports no error for it, and it has no fan-out or it is a[*]
\* on a container that is not empty
ResolvesSomewhere ==
  /\ Len(call.path) > 0
  /\ SegmentsParse(call.path)
  /\ HasField(before, call.path, <<>>).errors = {}
  /\ \/ NoFanOut(call.path)
     \/ call.path = a \o Group(<<Star>>) /\ Len(Target.c) > 0

\* C12: a Write with a mode other than '=', '+' and '-' on a path that resolves
\* to at least one location fails with the invalid-mode error, whatever the value
\* at that location (None included), and changes no location.
C12_InvalidMode ==
  (pc = "returned" /\ call.op = "Write" /\ call.mode \notin {"=", "+", "-"}
     /\ ResolvesSomewhere)
    => ret.exc = "ValueError" /\ record = before


(***************************************************************************)
(* Further properties of the validator (checked under SpecValidate)        *)
(***************************************************************************)
\* every Extends name of the registry is itself registered
ExtendsRegistered ==
  \A sch \in RegistrySchemas : \A i \in 1..Len(sch.Extends) : sch.Extends[i] \in RegistryNames

\* the registered schemas of which name is a transitive Extends-descendant
AncestorsOf(name) == {n \in RegistryNames : name \in DescendantsOf(n)}

\* C13: for an acyclic registry whose Extends names are all registered,
\* Toposort returns each schema name exactly once, every schema after all of
\* its Extends parents; Validate takes the schemas in that order, and a schema
\* is reached only after all of its ancestors were reached (evaluated, or
\* skipped as dropped).
C13_TopologicalOrder ==
  (ExtendsRegistered /\ ~HasCycle) =>
    LET t == Toposort(SchemasGraph(registry))
    IN /\ t.exc = "none"
       /\ Len(t.order) = Len(registry)
       /\ {t.order[i] : i \in 1..Len(t.order)} = RegistryNames
       /\ \A i \in 1..Len(t.order) :
             LET parents == Lookup(registry, t.order[i]).Extends
             IN \A q \in 1..Len(parents) : \E j \in 1..(i - 1) : t.order[j] = parents[q]
       /\ vpc \in {"loop", "returned"} =>
             /\ Schemas = t.order
             /\ Len(evaluated) = pos - 1
             /\ \A i \in 1..Len(evaluated) :
                   /\ evaluated[i].schema = Schemas[i]
                   /\ \A anc \in AncestorsOf(evaluated[i].schema) :
                         \E j \in 1..(i - 1) : evaluated[j].schema = anc

\* C13 witness: Validate returned for three schemas registered children first
\* (base extends feature, feature extends trait), all three evaluated
C13_Witness ==
  /\ vpc = "returned"
  /\ Len(registry) = 3
  /\ Lookup(registry, "base").Extends = <<"feature">>
  /\ Lookup(registry, "feature").Extends = <<"trait">>
  /\ Lookup(registry, "trait").Extends = <<>>
  /\ Schemas = <<"trait", "feature", "base">>
  /\ \A i \in 1..3 : evaluated[i].outcome # "skipped"


\* what holds of Status and of the loop's history in every state
StatusFollowsHistory ==
  /\ ValidationSuccess = "Invalid"
       <=> \E i \in 1..Len(evaluated) :
              /\ evaluated[i].outcome # "skipped"
              /\ evaluated[i].status = "SchemaNotImplemented"
              /\ evaluated[i].required
  /\ \A i \in 1..Len(evaluated) :
        /\ evaluated[i].outcome = "skipped" => evaluated[i].schema \in DroppedSchemas
        /\ evaluated[i].status = "SchemaImplemented" => evaluated[i].schema \in ImplementedSchemas
  /\ vpc = "returned" =>
        /\ Len(evaluated) = Len(Schemas)
        /\ \A i \in 1..Len(Schemas) :
              Schemas[i] \notin DroppedSchemas => evaluated[i].outcome # "skipped"

\* what holds of every step: Invalid stays Invalid, and the step that makes
\* Status Invalid drops nothing and goes on to the next schema
StatusStep ==
  /\ ValidationSuccess = "Invalid" => ValidationSuccess' = "Invalid"
  /\ (ValidationSuccess = "Valid" /\ ValidationSuccess' = "Invalid")
       => /\ DroppedSchemas' = DroppedSchemas
          /\ ImplementedSchemas' = ImplementedSchemas
          /\ vpc' = "loop"
          /\ pos' = pos + 1

C15_NoFalseCycle ==
  ~HasCycle =>
    LET t == Toposort(SchemasGraph(registry))
    IN /\ t.exc = "none"
       /\ {t.order[i] : i \in 1..Len(t.order)} = RegistryNames


(***************************************************************************)
(* Further properties of the path engine (checked under Spec)              *)
(***************************************************************************)
\* C16: Read and Exists agree on which paths resolve: for every record and
\* every path that follows the grammar, Read raises if and only if Exists
\* reports at least one error for the same record and path.
C16_ReadExistsAgree ==
  (pc = "returned" /\ call.op = "Read" /\ Len(call.path) > 0 /\ SegmentsParse(call.path))
    => (ret.exc # "none" <=> HasField(before, call.path, <<>>).errors # {})


\* C18: a Write that raises leaves the record exactly as it was before the
\* call: no branch of a fan-out has been modified when the error propagates.
C18_WriteAtomic ==
  (pc = "returned" /\ call.op = "Write" /\ ret.exc # "none") => record = before


(***************************************************************************)
(* Validate as a function of the registry and the record, for comparing    *)
(* one registry with another                                               *)
(***************************************************************************)
\* "for schema in Schemas" from position i on; st holds the loop's variables
RECURSIVE ValidateLoop(_, _, _, _, _)
ValidateLoop(reg, ent, order, i, st) ==
  IF i > Len(order) \/ st.exc # "none" THEN st
  ELSE IF order[i] \in st.DroppedSchemas THEN ValidateLoop(reg, ent, order, i + 1, st)
  ELSE LET Required == EffectiveRequired(Lookup(reg, order[i]).Required, st.ImplementedSchemas)
           v == ValidateSchema(Lookup(reg, order[i]), ent)
       IN ValidateLoop(reg, ent, order, i + 1,
            IF v.exc # "none" THEN [st EXCEPT !.exc = v.exc]
            ELSE IF v.status = "SchemaImplemented"
            THEN [st EXCEPT !.DefinedFields = @ \cup v.fields,
                            !.ImplementedSchemas = @ \cup {order[i]}]
            ELSE IF ~Required
            THEN [st EXCEPT !.DroppedSchemas =
                    @ \cup GetAllDescendants(order[i], BuildReverseGraph(SchemasGraph(reg)))]
            ELSE [st EXCEPT !.ValidationSuccess = "Invalid"])

\* Validate(entity) with cls.registry = reg: what it raises or returns
Validate(reg, ent) ==
  LET t == Toposort(SchemasGraph(reg))
      start == [exc |-> t.exc, ValidationSuccess |-> "Valid", DroppedSchemas |-> {},
                ImplementedSchemas |-> {}, DefinedFields |-> {}]
  IN IF t.exc # "none" THEN start ELSE ValidateLoop(reg, ent, t.order, 1, start)

\* the function and the state machine give the same outcome
ValidateAgrees ==
  vpc = "returned" =>
    Validate(registry, entity) =
      [exc |-> "none", ValidationSuccess |-> ValidationSuccess,
       DroppedSchemas |-> DroppedSchemas, ImplementedSchemas |-> ImplementedSchemas,
       DefinedFields |-> DefinedFields]

\* the same schemas registered in every order
Reorderings(reg) ==
  {[i \in 1..Len(reg) |-> reg[p[i]]] :
     p \in {q \in [1..Len(reg) -> 1..Len(reg)] : \A i, j \in 1..Len(reg) : q[i] = q[j] => i = j}}

\* C17: Validate's Status and ImplementedSchemas depend only on the set of
\* schemas and on the record: the same schemas registered in another order
\* give the same Status and the same ImplementedSchemas for the same record.
C17_OrderIndependent ==
  vpc = "returned" =>
    \A other \in Reorderings(registry) :
       LET r == Validate(other, entity)
       IN /\ r.exc = "none"
          /\ r.ValidationSuccess = ValidationSuccess
          /\ r.ImplementedSchemas = ImplementedSchemas


====
